---- MODULE Spec2Model ----
(***************************************************************************)
(* The scrypt crate (src/scrypt/src/lib.rs): the key derivation `scrypt`,  *)
(* and the helpers `scrypt_simple` and `scrypt_check` with the "rscrypt"   *)
(* string format.  The modules params, romix and errors are declared by    *)
(* lib.rs (lines 59-62) and are modelled from the specification sections   *)
(* 4.1 and 4.4.                                                            *)
(*                                                                         *)
(* Numbers wider than the model checker's integers (u32, usize) are kept   *)
(* as little-endian sequences of base-256 digits, so that a u32 is exactly *)
(* its four little-endian bytes and a usize its four or eight.             *)
(***************************************************************************)
EXTENDS Integers, Sequences, FiniteSets, TLC

(***************************************************************************)
(* Arithmetic on little-endian base-256 digit sequences of W digits.       *)
(***************************************************************************)
Base == 2^8
W == 2 * 8
Digits == 1..W

Zero == [i \in Digits |-> 0]

\* A small non-negative integer (below 2^31) as a number.
FromInt(k) == [i \in Digits |-> IF i <= 4 THEN (k \div Base^(i-1)) % Base ELSE 0]

\* The bytes above position `bytes` are all zero: the value fits that width.
Fits(x, bytes) == \A i \in Digits : i > bytes => x[i] = 0

\* The value wrapped to `bytes` bytes.
Trunc(x, bytes) == [i \in Digits |-> IF i <= bytes THEN x[i] ELSE 0]

ToInt(x) == x[1] + Base * x[2] + Base^2 * x[3] + Base^3 * x[4]

Less(a, b) ==
    \E i \in Digits : a[i] < b[i] /\ \A j \in Digits : j > i => a[j] = b[j]
Leq(a, b) == a = b \/ Less(a, b)

RECURSIVE AddFrom(_, _, _, _)
AddFrom(a, b, i, c) ==
    IF i > W THEN <<>>
    ELSE LET s == a[i] + b[i] + c
         IN  <<s % Base>> \o AddFrom(a, b, i + 1, s \div Base)
Add(a, b) == AddFrom(a, b, 1, 0)

\* The number of digits up to the highest non-zero one.
SigLen(x) ==
    IF x = Zero THEN 0
    ELSE CHOOSE i \in Digits : x[i] # 0 /\ \A j \in Digits : j > i => x[j] = 0

\* Column k of the product: the sum of a[i] * b[k + 1 - i] over the digits
\* i of a up to its highest non-zero one (la).
RECURSIVE ColSum(_, _, _, _, _)
ColSum(a, b, k, i, la) ==
    IF i > k \/ i > la THEN 0
    ELSE a[i] * b[k + 1 - i] + ColSum(a, b, k, i + 1, la)
RECURSIVE MulFrom(_, _, _, _, _)
MulFrom(a, b, k, c, la) ==
    IF k > W THEN <<>>
    ELSE LET s == ColSum(a, b, k, 1, la) + c
         IN  <<s % Base>> \o MulFrom(a, b, k + 1, s \div Base, la)
\* The exact product of two numbers of at most W/2 bytes each.
Mul(a, b) ==
    IF SigLen(a) <= SigLen(b) THEN MulFrom(a, b, 1, 0, SigLen(a))
    ELSE MulFrom(b, a, 1, 0, SigLen(b))

\* 2^k, for k below 8*W.
Pow2(k) == [i \in Digits |-> IF i = (k \div 8) + 1 THEN 2^(k % 8) ELSE 0]

\* The position of the highest set bit (0 for zero).
RECURSIVE BitLenInt(_)
BitLenInt(d) == IF d = 0 THEN 0 ELSE 1 + BitLenInt(d \div 2)
BitLen(x) ==
    IF x = Zero THEN 0
    ELSE 8 * (SigLen(x) - 1) + BitLenInt(x[SigLen(x)])

RECURSIVE DivFrom(_, _, _, _)
DivFrom(x, d, i, rem) ==
    IF i < 1 THEN <<>>
    ELSE LET c == rem * Base + x[i]
         IN  DivFrom(x, d, i - 1, c % d) \o <<c \div d>>
\* Integer division by a small positive divisor.
DivSmall(x, d) == DivFrom(x, d, W, 0)

\* Multiplication in a machine word of `bytes` bytes: the wrapped value, and
\* whether the exact product did not fit.
WrappingMul(a, b, bytes) ==
    LET m == Mul(a, b) IN [val |-> Trunc(m, bytes), wrap |-> ~Fits(m, bytes)]

\* `1 << k` in a machine word of `bytes` bytes: a shift by the width or more
\* is an overflow (the shift amount is then taken modulo the width).
ShiftLeftOne(k, bytes) ==
    [val |-> Pow2(k % (8 * bytes)), wrap |-> k >= 8 * bytes]

(***************************************************************************)
(* Program constants.                                                      *)
(***************************************************************************)
\* 0xffffffff
U32Max == [i \in Digits |-> IF i <= 4 THEN Base - 1 ELSE 0]
OutBlockLen == 32
BlockUnit == 128
CompactLimit == 256
SaltLen == 16
DkLen == 32
CompactParamLen == 3
ExpandedParamLen == 9

(***************************************************************************)
(* Bounds of the model.                                                    *)
(***************************************************************************)
\* Derivations are run for log_n up to MaxRunLogN.
MaxRunLogN == 2
\* Passwords are the one-byte strings <<1>> .. <<NumPasswords>>.
NumPasswords == 2
\* The random source produces one of NumSalts salts.
NumSalts == 1
\* A block of r128 bytes is abstracted to a value of BlockBits bits.
BlockBits == 3
\* The memory a derivation can allocate is 2^MemLimitLog2 bytes.
MemLimitLog2 == 17
\* The small values of p are 1 .. MaxSmallP; with that many chunks the
\* chunks of B are also given to ROMix one at a time and in any order.
MaxSmallP == 3

Passwords == {<<k>> : k \in 1..NumPasswords}
MemLimit == Pow2(MemLimitLog2)

(***************************************************************************)
(* params.rs: ScryptParams::new, from section 4.1 of the specification.    *)
(***************************************************************************)
NoParams == [log_n |-> 0, r |-> Zero, p |-> Zero]

\* a * b, or failure when the product does not fit a usize of `bytes` bytes.
CheckedMul(a, b, bytes) ==
    LET m == Mul(a, b) IN [ok |-> Fits(m, bytes), val |-> m]

ScryptParams_new(log_n, r, p, bytes) ==
    IF r = Zero \/ p = Zero THEN [ok |-> FALSE, params |-> NoParams]
    ELSE IF log_n >= 8 * bytes THEN [ok |-> FALSE, params |-> NoParams]
    ELSE LET n == Pow2(log_n)
             r128 == CheckedMul(FromInt(BlockUnit), r, bytes)
         IN  IF ~r128.ok THEN [ok |-> FALSE, params |-> NoParams]
             ELSE IF ~CheckedMul(n, r128.val, bytes).ok
                  THEN [ok |-> FALSE, params |-> NoParams]
             ELSE IF ~CheckedMul(p, r128.val, bytes).ok
                  THEN [ok |-> FALSE, params |-> NoParams]
             ELSE [ok |-> TRUE,
                   params |-> [log_n |-> log_n, r |-> r, p |-> p]]

(***************************************************************************)
(* The collaborators, as deterministic functions of their inputs: the      *)
(* key-stretch primitive (pbkdf2 with HMAC-SHA256, one iteration) and the  *)
(* BlockMix transform.  A block of r128 bytes is one value of BlockBits bits.*)
(***************************************************************************)
\* A digest of a sequence, folded from left to right; the fold of a range
\* is split in halves to keep the evaluation shallow (the left half is evaluated first).
RECURSIVE DigestRange(_, _, _, _)
DigestRange(h, s, lo, hi) ==
    IF lo > hi THEN h
    ELSE IF lo = hi THEN (h * 31 + s[lo] + 1) % 65521
    ELSE LET mid  == (lo + hi) \div 2
             left == DigestRange(h, s, lo, mid)
         IN  IF left >= 0 THEN DigestRange(left, s, mid + 1, hi) ELSE left
Digest(s) == DigestRange(7, s, 1, Len(s))

KdfSeed(key, slt) == (Digest(key) * 257 + Digest(slt)) % 65521

\* Byte i (from 1) of pbkdf2's output: a shorter output is a prefix of a
\* longer one, as for PBKDF2's concatenated blocks.
KdfByte(seed, i) == (seed + 131 * i + (i \div 7)) % Base

Pbkdf2Bytes(key, slt, len) == [i \in 1..len |-> KdfByte(KdfSeed(key, slt), i)]

\* pbkdf2 filling the p blocks of B.
Pbkdf2Blocks(key, slt, count) ==
    [k \in 1..count |-> (KdfSeed(key, slt) + 5 * k + (k \div 3)) % (2^BlockBits)]

BlockMix(x) == (5 * x + 3) % (2^BlockBits)

RECURSIVE XorBits(_, _, _)
XorBits(a, b, bits) ==
    IF bits = 0 THEN 0
    ELSE ((a + b) % 2) + 2 * XorBits(a \div 2, b \div 2, bits - 1)
Xor(a, b) == XorBits(a, b, BlockBits)

\* Integerify(X) mod n, n a power of two: the low bits of X.
Integerify(x, n) == x % n

(***************************************************************************)
(* romix.rs: scrypt_ro_mix, from section 4.4 of the specification.  V is a *)
(* sequence of n blocks; each block of V also records which ROMix call     *)
(* wrote it (0: the zeroes of the allocation), and the call records the    *)
(* blocks its mix phase read.                                              *)
(***************************************************************************)
ZeroV(n) == [k \in 1..n |-> [val |-> 0, by |-> 0]]

\* A fill phase that stops one block short.
RECURSIVE RoMixFillShort(_, _, _, _, _)
RoMixFillShort(x, vv, i, n, seq) ==
    IF i >= n - 1 THEN [x |-> x, v |-> vv]
    ELSE RoMixFillShort(BlockMix(x),
                        [vv EXCEPT ![i + 1] = [val |-> x, by |-> seq]],
                        i + 1, n, seq)

\* Fill phase: V[i] = X; X = BlockMix(X), for i in 0..n-1.
RECURSIVE RoMixFill(_, _, _, _, _)
RoMixFill(x, vv, i, n, seq) ==
    IF i >= n THEN [x |-> x, v |-> vv]
    ELSE RoMixFill(BlockMix(x),
                   [vv EXCEPT ![i + 1] = [val |-> x, by |-> seq]],
                   i + 1, n, seq)

\* Mix phase: j = Integerify(X) mod n; T = X xor V[j]; X = BlockMix(T).
\* A read is recorded with its index and with where the block read is from:
\* written by this call, by an earlier call, or the zeroes of the allocation.
ReadOf(j, by, seq) ==
    [j |-> j,
     from |-> IF by = seq THEN "own" ELSE IF by = 0 THEN "zero" ELSE "earlier"]

RECURSIVE RoMixMix(_, _, _, _, _, _, _)
RoMixMix(x, vv, tt, i, n, seq, rd) ==
    IF i >= n THEN [x |-> x, t |-> tt, reads |-> rd]
    ELSE LET j  == Integerify(x, n)
             t2 == Xor(x, vv[j + 1].val)
         IN  RoMixMix(BlockMix(t2), vv, t2, i + 1, n, seq,
                      rd \cup {ReadOf(j, vv[j + 1].by, seq)})

\* A ROMix whose mix phase reads V as it was passed in, not as filled.
scrypt_ro_mix_stale(chunk, vv, tt, n, seq) ==
    LET f == RoMixFill(chunk, vv, 0, n, seq)
        m == RoMixMix(f.x, vv, tt, 0, n, seq, {})
    IN  [b |-> m.x, v |-> f.v, t |-> m.t, reads |-> m.reads]

scrypt_ro_mix(chunk, vv, tt, n, seq) ==
    LET f == RoMixFill(chunk, vv, 0, n, seq)
        m == RoMixMix(f.x, f.v, tt, 0, n, seq, {})
    IN  [b |-> m.x, v |-> f.v, t |-> m.t, reads |-> m.reads]

(***************************************************************************)
(* lib.rs: scrypt.                                                         *)
(***************************************************************************)
\* line 87: output.len() > 0 && output.len() / 32 <= 0xffffffff
OutputLenOk(len) ==
    len # Zero /\ Leq(DivSmall(len, OutBlockLen), U32Max)

\* The sizes computed in u32 arithmetic, r and p not widened to usize.
ScryptSizesU32(prm, bytes) ==
    LET n     == ShiftLeftOne(prm.log_n, bytes)
        r128  == WrappingMul(prm.r, FromInt(BlockUnit), 4)
        pr128 == WrappingMul(prm.p, r128.val, 4)
        nr128 == WrappingMul(n.val, r128.val, bytes)
    IN  [n |-> n.val, r128 |-> r128.val, pr128 |-> pr128.val,
         nr128 |-> nr128.val,
         wrap |-> n.wrap \/ r128.wrap \/ pr128.wrap \/ nr128.wrap]

\* lines 93-96: n, r128, pr128, nr128 in usize arithmetic.
ScryptSizes(prm, bytes) ==
    LET n     == ShiftLeftOne(prm.log_n, bytes)
        r128  == WrappingMul(prm.r, FromInt(BlockUnit), bytes)
        pr128 == WrappingMul(prm.p, r128.val, bytes)
        nr128 == WrappingMul(n.val, r128.val, bytes)
    IN  [n |-> n.val, r128 |-> r128.val, pr128 |-> pr128.val,
         nr128 |-> nr128.val,
         wrap |-> n.wrap \/ r128.wrap \/ pr128.wrap \/ nr128.wrap]

NoSizes == [n |-> Zero, r128 |-> Zero, pr128 |-> Zero, nr128 |-> Zero,
            wrap |-> FALSE]

\* The number of `size`-byte chunks of a buffer of `total` bytes (both small
\* enough to have been allocated): chunks_mut, the last chunk may be short.
NumChunks(total, size) == (ToInt(total) + ToInt(size) - 1) \div ToInt(size)

\* The loop of lines 104-106: ROMix on each chunk of B in index order, all
\* with the same V and T.  st is [b, v, t, seq, reads]; the range of chunks
\* is split in halves to keep the evaluation shallow (the left half is
\* evaluated first).
RECURSIVE MixRange(_, _, _, _)
MixRange(st, n, lo, hi) ==
    IF lo > hi THEN st
    ELSE IF lo = hi
         THEN LET m == scrypt_ro_mix(st.b[lo], st.v, st.t, n, st.seq + 1)
              IN  [b |-> [st.b EXCEPT ![lo] = m.b], v |-> m.v, t |-> m.t,
                   seq |-> st.seq + 1, reads |-> st.reads \cup m.reads]
    ELSE LET mid  == (lo + hi) \div 2
             left == MixRange(st, n, lo, mid)
         IN  IF left.seq >= 0 THEN MixRange(left, n, mid + 1, hi) ELSE left
MixForward(bb, vv, tt, n) ==
    MixRange([b |-> bb, v |-> vv, t |-> tt, seq |-> 0, reads |-> {}],
             n, 1, Len(bb))

(***************************************************************************)
(* Strings are sequences of one-character strings.  base64::encode and     *)
(* base64::decode (the standard alphabet, '=' padding written by encode    *)
(* and optional for decode).                                               *)
(***************************************************************************)
B64Alphabet ==
    <<"A", "B", "C", "D", "E", "F", "G", "H", "I", "J", "K", "L", "M",
      "N", "O", "P", "Q", "R", "S", "T", "U", "V", "W", "X", "Y", "Z",
      "a", "b", "c", "d", "e", "f", "g", "h", "i", "j", "k", "l", "m",
      "n", "o", "p", "q", "r", "s", "t", "u", "v", "w", "x", "y", "z",
      "0", "1", "2", "3", "4", "5", "6", "7", "8", "9", "+", "/">>

B64Chars == {B64Alphabet[i] : i \in DOMAIN B64Alphabet}
B64Index ==
    [c \in B64Chars |-> (CHOOSE i \in DOMAIN B64Alphabet : B64Alphabet[i] = c) - 1]
IsB64Char(c) == c \in B64Chars
B64Value(c) == B64Index[c]

\* Character k of the encoding: three bytes give four characters, a last
\* group of one or two bytes is padded with '='.
B64EncodeChar(bytes, k) ==
    LET g  == (k - 1) \div 4
        at == (k - 1) % 4
        B(j) == IF 3 * g + j <= Len(bytes) THEN bytes[3 * g + j] ELSE 0
    IN  IF at >= 2 /\ 3 * g + at > Len(bytes) THEN "="
        ELSE B64Alphabet[1 + CASE at = 0 -> B(1) \div 4
                               [] at = 1 -> (B(1) % 4) * 16 + B(2) \div 16
                               [] at = 2 -> (B(2) % 16) * 4 + B(3) \div 64
                               [] OTHER  -> B(3) % 64]

B64Encode(bytes) ==
    [k \in 1..(4 * ((Len(bytes) + 2) \div 3)) |-> B64EncodeChar(bytes, k)]

B64DecodeByte(s, i) ==
    LET g  == (i - 1) \div 3
        at == (i - 1) % 3
        C(j) == B64Value(s[4 * g + j])
    IN  CASE at = 0 -> C(1) * 4 + C(2) \div 16
          [] at = 1 -> (C(2) % 16) * 16 + C(3) \div 4
          [] OTHER  -> (C(3) % 4) * 64 + C(4)

B64Decode(s) ==
    LET len  == Len(s)
        pads == IF len >= 2 /\ s[len] = "=" /\ s[len - 1] = "=" THEN 2
                ELSE IF len >= 1 /\ s[len] = "=" THEN 1 ELSE 0
        d    == len - pads
    IN  IF /\ \A i \in 1..d : IsB64Char(s[i])
           /\ d % 4 # 1
           /\ (pads > 0 => len % 4 = 0)
        THEN [ok |-> TRUE,
              bytes |-> [i \in 1..((d * 3) \div 4) |-> B64DecodeByte(s, i)]]
        ELSE [ok |-> FALSE, bytes |-> <<>>]

\* str::split('$'): the pieces between the '$' characters.
DollarPos(s) == {i \in 1..Len(s) : s[i] = "$"}
Split(s) ==
    LET D   == DollarPos(s)
        cnt == Cardinality(D)
        Pos(k) == IF k = 0 THEN 0
                  ELSE IF k > cnt THEN Len(s) + 1
                  ELSE CHOOSE i \in D : Cardinality({j \in D : j <= i}) = k
    IN  [k \in 1..(cnt + 1) |-> SubSeq(s, Pos(k - 1) + 1, Pos(k) - 1)]

RECURSIVE Join(_)
Join(fields) ==
    IF Len(fields) = 0 THEN <<>>
    ELSE IF Len(fields) = 1 THEN fields[1]
    ELSE fields[1] \o <<"$">> \o Join(Tail(fields))

Tag == <<"r", "s", "c", "r", "y", "p", "t">>

(***************************************************************************)
(* lib.rs: the string scrypt_simple writes (lines 152-173).                *)
(***************************************************************************)
\* LittleEndian::write_u32 and read_u32.
U32ToLE(x) == [i \in 1..4 |-> x[i]]
U32FromLE(bytes) == [i \in Digits |-> IF i <= 4 THEN bytes[i] ELSE 0]

\* The test of line 154 with "or" for "and".
IsCompactEither(prm) ==
    Less(prm.r, FromInt(CompactLimit)) \/ Less(prm.p, FromInt(CompactLimit))

\* line 154: params.r < 256 && params.p < 256
IsCompact(prm) ==
    Less(prm.r, FromInt(CompactLimit)) /\ Less(prm.p, FromInt(CompactLimit))

\* lines 154-168: the format field and the parameter bytes.
EncodeParams(prm) ==
    IF IsCompact(prm)
    THEN [fmt |-> <<"0">>, bytes |-> <<prm.log_n, prm.r[1], prm.p[1]>>]
    ELSE [fmt |-> <<"1">>,
          bytes |-> <<prm.log_n>> \o U32ToLE(prm.r) \o U32ToLE(prm.p)]

\* The string without its final '$'.
EncodeHashedOpen(prm, slt, dk) ==
    LET e == EncodeParams(prm)
    IN  <<"$">> \o Tag \o <<"$">> \o e.fmt \o <<"$">> \o B64Encode(e.bytes)
        \o <<"$">> \o B64Encode(slt) \o <<"$">> \o B64Encode(dk)

\* lines 152-173: the string scrypt_simple returns.
EncodeHashed(prm, slt, dk) ==
    LET e == EncodeParams(prm)
    IN  <<"$">> \o Tag \o <<"$">> \o e.fmt \o <<"$">> \o B64Encode(e.bytes)
        \o <<"$">> \o B64Encode(slt) \o <<"$">> \o B64Encode(dk) \o <<"$">>

(***************************************************************************)
(* lib.rs: the parsing of scrypt_check (lines 192-235).                    *)
(***************************************************************************)
\* lines 205-221: the parameters from the format field and the bytes.
DecodeParams(fstr, pvec, bytes) ==
    IF fstr = <<"0">> /\ Len(pvec) = CompactParamLen
    THEN ScryptParams_new(pvec[1], FromInt(pvec[2]), FromInt(pvec[3]), bytes)
    ELSE IF fstr = <<"1">> /\ Len(pvec) = ExpandedParamLen
    THEN ScryptParams_new(pvec[1], U32FromLE(SubSeq(pvec, 2, 5)),
                          U32FromLE(SubSeq(pvec, 6, 9)), bytes)
    ELSE [ok |-> FALSE, params |-> NoParams]

ParseFailed == [ok |-> FALSE, params |-> NoParams, salt |-> <<>>,
                hash |-> <<>>]

\* Any number of pieces accepted after the last.
AnyMorePieces(f) == TRUE

\* lines 234-236: the iterator has no piece left.
NoMorePieces(f) == Len(f) < 8

\* lines 192-236: the pieces of the string, checked in the code's order.
ParseHashed(s, bytes) ==
    LET f == Split(s)
        \* iter.next() of a missing piece is None
        Has(k) == k <= Len(f)
    IN  IF f[1] # <<>> THEN ParseFailed
        ELSE IF ~(Has(2) /\ f[2] = Tag) THEN ParseFailed
        ELSE IF ~Has(3) THEN ParseFailed
        ELSE IF ~(Has(4) /\ B64Decode(f[4]).ok) THEN ParseFailed
        ELSE LET prm == DecodeParams(f[3], B64Decode(f[4]).bytes, bytes)
             IN  IF ~prm.ok THEN ParseFailed
                 ELSE IF ~(Has(5) /\ B64Decode(f[5]).ok) THEN ParseFailed
                 ELSE IF ~(Has(6) /\ B64Decode(f[6]).ok) THEN ParseFailed
                 ELSE IF ~(Has(7) /\ f[7] = <<>>) THEN ParseFailed
                 ELSE IF ~NoMorePieces(f) THEN ParseFailed
                 ELSE [ok |-> TRUE, params |-> prm.params,
                       salt |-> B64Decode(f[5]).bytes,
                       hash |-> B64Decode(f[6]).bytes]

(***************************************************************************)
(* State.                                                                  *)
(***************************************************************************)
VARIABLES
    usizeBytes,  \* the platform: size_of::<usize>(), 4 or 8
    params,      \* the caller's ScryptParams (NoParams: none constructed)
    lastNew,     \* the last call of ScryptParams::new: arguments and result
    op,          \* the top-level call: "none", "scrypt", "simple", "check"
    pc,          \* the position in it
    password,    \* scrypt's arguments
    salt,
    cparams,
    hash,        \* scrypt_check: the hash decoded from the string
    output,      \* the output buffer: its length, how many bytes were
                 \* written, and the seed that determines their values
    sz,          \* n, r128, pr128, nr128 (lines 93-96)
    b, v, t,     \* the buffers B, V and T
    todo,        \* the chunks of B the loop has not yet given to ROMix
    ret,         \* scrypt's result
    apiRet,      \* the top-level call's result
    hashed,      \* the string scrypt_simple returned last
    simplePw,    \* and the password it was given
    checkInput,  \* the string given to scrypt_check
    kdfCalls,    \* pbkdf2 calls of the current scrypt call
    allocd,      \* the buffers of the current scrypt call that are allocated
    vUse,        \* per allocation of V in this scrypt call: ROMix calls using it
    romixSeq,    \* ROMix calls of the current scrypt call
    reads,       \* the blocks of V the ROMix calls read in their mix phases
    b0           \* B as pbkdf2 filled it

callVars == <<password, salt, cparams, hash, output>>
bufVars == <<sz, b, v, t, todo, b0>>
ghostVars == <<kdfCalls, allocd, vUse, romixSeq, reads>>
simpleVars == <<hashed, simplePw>>
vars == <<usizeBytes, params, lastNew, op, pc, callVars, bufVars, ret,
          apiRet, simpleVars, checkInput, ghostVars>>

NeverCalled == [called |-> FALSE, log_n |-> 0, r |-> Zero, p |-> Zero,
                ok |-> FALSE]
NoOutput == [len |-> Zero, written |-> Zero, seed |-> -1]

Init ==
    /\ usizeBytes \in {4, 8}
    /\ params = NoParams
    /\ lastNew = NeverCalled
    /\ op = "none" /\ pc = "idle"
    /\ password = <<>> /\ salt = <<>> /\ cparams = NoParams /\ hash = <<>>
    /\ output = NoOutput
    /\ sz = NoSizes
    /\ b = <<>> /\ v = <<>> /\ t = 0 /\ todo = {}
    /\ b0 = <<>>
    /\ ret = "none" /\ apiRet = "none"
    /\ hashed = <<>> /\ simplePw = <<>> /\ checkInput = <<>>
    /\ kdfCalls = 0 /\ allocd = {} /\ vUse = <<>> /\ romixSeq = 0
    /\ reads = {}

(***************************************************************************)
(* Inputs.                                                                 *)
(***************************************************************************)
LogNs == (0..MaxRunLogN) \cup {24, 25, 56, 57, 64, 255}
BigU32s == {Add(Pow2(24), Trunc(U32Max, 3)), Pow2(25), U32Max}
Rs == {Zero, FromInt(1), FromInt(CompactLimit)} \cup BigU32s
Ps == {FromInt(k) : k \in 0..MaxSmallP} \cup {FromInt(CompactLimit)}
          \cup BigU32s

\* (2^32 - 1) * 32
MaxOutputLen == Mul(U32Max, FromInt(OutBlockLen))
UsizeMax(bytes) == [i \in Digits |-> IF i <= bytes THEN Base - 1 ELSE 0]
OutLens(bytes) ==
    {len \in {Zero, FromInt(1), FromInt(DkLen), MaxOutputLen,
              Add(MaxOutputLen, FromInt(1)),
              Add(MaxOutputLen, FromInt(OutBlockLen - 1)),
              Add(MaxOutputLen, FromInt(OutBlockLen)),
              UsizeMax(bytes)} : Fits(len, bytes)}

FixedSalt == <<9, 8, 7>>

\* The salts the random source can produce.
RngSalts == {[i \in 1..SaltLen |-> (37 * k + 11 * i) % Base] : k \in 1..NumSalts}

\* The strings given to scrypt_check that do not come from scrypt_simple.
FixedInputs ==
    { <<>>,
      <<"$">>,
      <<"r", "s", "c", "r", "y", "p", "t">>,
      \* log_n = 1, r = 1, p = 1, an empty salt and a one-byte hash
      <<"$">> \o Tag \o <<"$", "0", "$", "A", "Q", "E", "B", "$", "$",
                          "A", "A", "=", "=", "$">> }

\* The piece k of s replaced.
SetField(s, k, new) == Join([Split(s) EXCEPT ![k] = new])

\* A string scrypt_simple returned, and what a user or an attacker may make
\* of it.
Mutations(h) ==
    LET f    == Split(h)
        slt  == B64Decode(f[5]).bytes
        hsh  == B64Decode(f[6]).bytes
        prm  == B64Decode(f[4]).bytes
    IN  { h,
          <<"x">> \o h,
          SetField(h, 2, Tail(Tag)),
          SetField(h, 3, <<"2">>),
          SetField(h, 3, IF f[3] = <<"0">> THEN <<"1">> ELSE <<"0">>),
          SetField(h, 3, <<>>),
          SubSeq(h, 1, Len(h) - 1),
          h \o <<"x">>,
          h \o <<"$">>,
          SetField(h, 6, B64Encode(SubSeq(hsh, 1, Len(hsh) \div 2))),
          SetField(h, 6, <<>>),
          SetField(h, 6, B64Encode([hsh EXCEPT ![1] = (@ + 1) % Base])),
          SetField(h, 5, B64Encode(SubSeq(slt, 1, Len(slt) \div 2))),
          SetField(SetField(h, 3, <<"0">>), 4,
                   B64Encode(<<prm[1], 0, 1>>)) }
        \cup {SetField(h, k, <<"!">> \o f[k]) : k \in 4..6}
        \cup {Join(SubSeq(f, 1, k)) : k \in 3..6}

CheckInputs ==
    IF op = "none" /\ ~lastNew.called THEN FixedInputs
    ELSE IF op = "simple" /\ apiRet = "Ok" THEN Mutations(hashed)
    ELSE {}

\* The passwords given to scrypt_check with the string s: any with the
\* string scrypt_simple returned or a string of FixedInputs, the password
\* of scrypt_simple with a string made from the one it returned.
CheckPasswords(s) ==
    IF hashed = <<>> \/ s = hashed THEN Passwords ELSE {simplePw}

(***************************************************************************)
(* ScryptParams::new, called by the user.                                  *)
(***************************************************************************)
NewParams ==
    /\ pc = "idle" /\ ~lastNew.called /\ op = "none"
    /\ \E log_n \in LogNs, r \in Rs, p \in Ps :
         \E res \in {ScryptParams_new(log_n, r, p, usizeBytes)} :
             /\ params' = res.params
             /\ lastNew' = [called |-> TRUE, log_n |-> log_n, r |-> r, p |-> p,
                         ok |-> res.ok]
    /\ UNCHANGED <<usizeBytes, op, pc, callVars, bufVars, ret, apiRet,
                   simpleVars, checkInput, ghostVars>>

(***************************************************************************)
(* scrypt, stepwise.  EnterScrypt is the call itself: the arguments are    *)
(* bound and nothing of the previous call is left.                         *)
(***************************************************************************)
ClearCall ==
    /\ sz' = NoSizes
    /\ b' = <<>> /\ v' = <<>> /\ t' = 0 /\ todo' = {}
    /\ b0' = <<>>
    /\ ret' = "none"
    /\ kdfCalls' = 0 /\ allocd' = {} /\ vUse' = <<>> /\ romixSeq' = 0
    /\ reads' = {}

EnterScrypt(pw, slt, prm, len) ==
    /\ ClearCall
    /\ password' = pw /\ salt' = slt /\ cparams' = prm
    /\ output' = [len |-> len, written |-> Zero, seed |-> -1]
    /\ apiRet' = "none"
    /\ pc' = "entry"

\* A direct call of scrypt with validated parameters.  (A call clears all
\* that the call before it left, so one run of the program makes one call,
\* or scrypt_simple and then scrypt_check on the string it returned.)
ScryptCall ==
    /\ pc = "idle" /\ params # NoParams /\ op = "none"
    /\ \E len \in OutLens(usizeBytes) :
         EnterScrypt(<<1>>, FixedSalt, params, len)
    /\ op' = "scrypt"
    /\ hash' = <<>>
    /\ UNCHANGED <<usizeBytes, params, lastNew, simpleVars, checkInput>>

\* lines 87-96: the output length check, then the sizes.
ScryptEntry ==
    /\ pc = "entry"
    /\ IF ~OutputLenOk(output.len)
       THEN /\ ret' = "InvalidOutputLen"
            /\ pc' = "returned"
            /\ sz' = sz
       ELSE /\ sz' = ScryptSizes(cparams, usizeBytes)
            /\ pc' = "expand"
            /\ ret' = ret
    /\ UNCHANGED <<usizeBytes, params, lastNew, op, callVars, b, v, t, todo,
                   b0, apiRet, simpleVars, checkInput, ghostVars>>

\* lines 98-99: B is allocated and filled by pbkdf2.  An allocation the
\* memory cannot hold aborts the process.
ScryptExpand ==
    /\ pc = "expand"
    /\ IF ~Leq(sz.pr128, MemLimit)
       THEN /\ ret' = "abort" /\ pc' = "returned"
            /\ UNCHANGED <<b, b0, kdfCalls, allocd>>
       ELSE /\ b' = Pbkdf2Blocks(password, salt, NumChunks(sz.pr128, sz.r128))
            /\ b0' = b'
            /\ kdfCalls' = kdfCalls + 1
            /\ allocd' = allocd \cup {"b"}
            /\ pc' = "scratch"
            /\ ret' = ret
    /\ UNCHANGED <<usizeBytes, params, lastNew, op, callVars, sz, v, t, todo,
                   apiRet, simpleVars, checkInput, vUse, romixSeq, reads>>

\* Every call of the loop with a V of its own.
ScratchUseFresh(use, calls) ==
    [use EXCEPT ![Len(use)] = @ + 1] \o [i \in 1..(calls - 1) |-> 1]

\* lines 104-106: every call of the loop is passed the V allocated last.
ScratchUse(use, calls) == [use EXCEPT ![Len(use)] = @ + calls]

\* lines 101-102: V and T are allocated, zeroed.
ScryptAllocScratch ==
    /\ pc = "scratch"
    /\ IF ~Leq(Add(Add(sz.pr128, sz.nr128), sz.r128), MemLimit)
       THEN /\ ret' = "abort" /\ pc' = "returned"
            /\ UNCHANGED <<v, t, todo, allocd, vUse>>
       ELSE /\ v' = ZeroV(NumChunks(sz.nr128, sz.r128))
            /\ t' = 0
            /\ todo' = DOMAIN b
            /\ allocd' = allocd \cup {"v", "t"}
            /\ vUse' = Append(vUse, 0)
            /\ pc' = "loop"
            /\ ret' = ret
    /\ UNCHANGED <<usizeBytes, params, lastNew, op, callVars, sz, b, b0,
                   apiRet, simpleVars, checkInput, kdfCalls, romixSeq, reads>>

\* lines 104-106: the loop, ROMix on every chunk of B with V and T.
ScryptMix ==
    /\ pc = "loop" /\ todo = DOMAIN b
    /\ \E m \in {MixForward(b, v, t, ToInt(sz.n))} :
           /\ b' = m.b
           /\ v' = m.v
           /\ t' = m.t
           /\ reads' = m.reads
           /\ romixSeq' = m.seq
           /\ vUse' = ScratchUse(vUse, m.seq)
    /\ todo' = {}
    /\ pc' = "final"
    /\ UNCHANGED <<usizeBytes, params, lastNew, op, callVars, sz, b0, ret,
                   apiRet, simpleVars, checkInput, kdfCalls, allocd>>

\* One chunk of B given to ROMix, whichever: the loop of lines 104-106 run
\* in another order than the code's.
RoMixAny ==
    /\ pc = "loop" /\ Len(b) <= MaxSmallP
    /\ \E k \in todo :
         \E m \in {scrypt_ro_mix(b[k], v, t, ToInt(sz.n), romixSeq + 1)} :
           /\ b' = [b EXCEPT ![k] = m.b]
           /\ v' = m.v
           /\ t' = m.t
           /\ reads' = reads \cup m.reads
           /\ todo' = todo \ {k}
           /\ pc' = IF todo = {k} THEN "final" ELSE "loop"
    /\ romixSeq' = romixSeq + 1
    /\ vUse' = ScratchUse(vUse, 1)
    /\ UNCHANGED <<usizeBytes, params, lastNew, op, callVars, sz, b0, ret,
                   apiRet, simpleVars, checkInput, kdfCalls, allocd>>

\* A pbkdf2 that writes the first 32-byte block of its output only.
Pbkdf2IntoFirstBlock(out, seed) ==
    [out EXCEPT !.written = IF Less(FromInt(OutBlockLen), out.len)
                            THEN FromInt(OutBlockLen) ELSE out.len,
                !.seed = seed]

\* lines 108-109: pbkdf2 writing its whole output buffer.
Pbkdf2Into(out, seed) == [out EXCEPT !.written = out.len, !.seed = seed]

\* lines 108-109: pbkdf2 fills the whole output; B, V and T go out of scope.
ScryptFinal ==
    /\ pc = "final"
    /\ output' = Pbkdf2Into(output, KdfSeed(password, b))
    /\ kdfCalls' = kdfCalls + 1
    /\ allocd' = {}
    /\ ret' = "Ok"
    /\ pc' = "returned"
    /\ UNCHANGED <<usizeBytes, params, lastNew, op, password, salt, cparams,
                   hash, bufVars, apiRet, simpleVars, checkInput, vUse, romixSeq, reads>>

\* The direct call returns to the user.
ScryptReturn ==
    /\ pc = "returned" /\ op = "scrypt"
    /\ apiRet' = ret
    /\ pc' = "idle"
    /\ UNCHANGED <<usizeBytes, params, lastNew, op, callVars, bufVars, ret,
                   simpleVars, checkInput, ghostVars>>

(***************************************************************************)
(* scrypt_simple (lines 137-176).                                          *)
(***************************************************************************)
\* lines 140-148: the salt from the random source, then scrypt for a
\* 32-byte key.
SimpleCall ==
    /\ pc = "idle" /\ params # NoParams /\ op = "none"
    /\ \E pw \in Passwords, slt \in RngSalts :
         EnterScrypt(pw, slt, params, FromInt(DkLen))
    /\ op' = "simple"
    /\ hash' = <<>>
    /\ UNCHANGED <<usizeBytes, params, lastNew, simpleVars, checkInput>>

\* lines 140, 143: the random source fails, and scrypt_simple returns its
\* error.
SimpleRngFail ==
    /\ pc = "idle" /\ params # NoParams /\ op = "none"
    /\ ClearCall
    /\ \E pw \in Passwords : password' = pw
    /\ salt' = <<>> /\ cparams' = params /\ hash' = <<>>
    /\ output' = NoOutput
    /\ op' = "simple"
    /\ apiRet' = "IoError"
    /\ UNCHANGED <<usizeBytes, params, lastNew, pc, simpleVars, checkInput>>

\* The 32 bytes of the derived key.
OutputBytes == [i \in 1..ToInt(output.written) |-> KdfByte(output.seed, i)]

\* lines 148-175: scrypt has returned; the string is built.
SimpleFinish ==
    /\ pc = "returned" /\ op = "simple"
    /\ IF ret = "Ok"
       THEN /\ hashed' = EncodeHashed(cparams, salt, OutputBytes)
            /\ simplePw' = password
            /\ apiRet' = "Ok"
       ELSE /\ UNCHANGED simpleVars
            /\ apiRet' = IF ret = "abort" THEN "abort" ELSE "panic"
    /\ pc' = "idle"
    /\ UNCHANGED <<usizeBytes, params, lastNew, op, callVars, bufVars, ret,
                   checkInput, ghostVars>>

(***************************************************************************)
(* scrypt_check (lines 189-250).                                           *)
(***************************************************************************)
\* lines 192-238: the string is parsed; a string that does not parse is
\* answered at once, for one that does scrypt is called with the decoded
\* salt and parameters for as many bytes as the decoded hash has.
CheckCall ==
    /\ pc = "idle"
    /\ \E s \in CheckInputs :
       \E pw \in CheckPasswords(s) :
         \E parsed \in {ParseHashed(s, usizeBytes)} :
             /\ checkInput' = s
             /\ hash' = parsed.hash
             /\ IF parsed.ok
                THEN EnterScrypt(pw, parsed.salt, parsed.params,
                                 FromInt(Len(parsed.hash)))
                ELSE /\ ClearCall
                     /\ password' = pw /\ salt' = <<>> /\ cparams' = NoParams
                     /\ output' = NoOutput
                     /\ apiRet' = "InvalidFormat"
                     /\ pc' = "idle"
    /\ op' = "check"
    /\ UNCHANGED <<usizeBytes, params, lastNew, simpleVars>>

\* constant_time_eq: equal lengths and equal bytes.
ConstantTimeEq(x, y) == Len(x) = Len(y) /\ \A i \in 1..Len(x) : x[i] = y[i]

\* lines 238-249: scrypt has returned; an error is a format error, else
\* the output is compared with the hash.
CheckFinish ==
    /\ pc = "returned" /\ op = "check"
    /\ apiRet' = IF ret = "InvalidOutputLen" THEN "InvalidFormat"
                 ELSE IF ret = "abort" THEN "abort"
                 ELSE IF ConstantTimeEq(OutputBytes, hash) THEN "Ok"
                 ELSE "HashMismatch"
    /\ pc' = "idle"
    /\ UNCHANGED <<usizeBytes, params, lastNew, op, callVars, bufVars, ret,
                   simpleVars, checkInput, ghostVars>>

Next ==
    \/ NewParams
    \/ ScryptCall
    \/ ScryptEntry
    \/ ScryptExpand
    \/ ScryptAllocScratch
    \/ ScryptMix
    \/ ScryptFinal
    \/ ScryptReturn
    \/ SimpleCall
    \/ SimpleRngFail
    \/ SimpleFinish
    \/ CheckCall
    \/ CheckFinish

Spec == Init /\ [][Next]_vars

\* The program with the chunks of B taken in any order.
NextPerm ==
    \/ Next
    \/ RoMixAny

SpecPerm == Init /\ [][NextPerm]_vars

(***************************************************************************)
(* Properties.                                                             *)
(***************************************************************************)
\* scrypt has got past the output length check of line 87.
PastLenCheck ==
    pc \in {"expand", "scratch", "loop", "final"} \/ ret \in {"Ok", "abort"}

\* B with every chunk given to ROMix in index order, V fresh.
ForwardB == MixForward(b0, ZeroV(ToInt(sz.n)), 0, ToInt(sz.n)).b

\* One chunk of B given to ROMix on its own, V fresh.
AloneB(k) == scrypt_ro_mix(b0[k], ZeroV(ToInt(sz.n)), 0, ToInt(sz.n), 1).b

\* x * 2^k fits a size type of `bytes` bytes.
ShiftedFits(x, k, bytes) == BitLen(x) + k <= 8 * bytes

\* What section 4.1 of the specification has the constructor reject.
MustReject(log_n, r, p, bytes) ==
    \/ r = Zero
    \/ p = Zero
    \/ log_n >= 8 * bytes
    \/ ~ShiftedFits(r, 7, bytes)
    \/ ~ShiftedFits(r, 7 + log_n, bytes)
    \/ BitLen(Mul(p, Mul(r, FromInt(BlockUnit)))) > 8 * bytes

\* The string has the form scrypt_check's documentation asks for: it starts
\* with '$', ends with '$', has six '$' and so five fields between them,
\* the tag, a format with parameter bytes of its length that the
\* constructor accepts, and base64 in the last two.
FormatOk(s, bytes) ==
    /\ Cardinality(DollarPos(s)) = 6
    /\ s[1] = "$" /\ s[Len(s)] = "$"
    /\ LET f  == Split(s)
           pv == B64Decode(f[4])
       IN  /\ f[2] = Tag
           /\ f[3] \in {<<"0">>, <<"1">>}
           /\ pv.ok
           /\ Len(pv.bytes) = IF f[3] = <<"0">> THEN CompactParamLen
                              ELSE ExpandedParamLen
           /\ DecodeParams(f[3], pv.bytes, bytes).ok
           /\ B64Decode(f[5]).ok
           /\ B64Decode(f[6]).ok

\* C1: scrypt returns InvalidOutputLen for an output of length 0 and for
\* every length above (2^32 - 1) * 32, the lengths (2^32 - 1) * 32 + 1 to
\* + 31 among them, and for a length within the bound it gets past the
\* check and, returning Ok, has filled that many bytes.
C1_OutputLenBound ==
    /\ ret = "InvalidOutputLen" =>
         output.len = Zero \/ Less(MaxOutputLen, output.len)
    /\ PastLenCheck => output.len # Zero /\ Leq(output.len, MaxOutputLen)
    /\ ret = "Ok" => output.written = output.len

\* C2: ScryptParams::new fails when r or p is zero or one of 2^log_n,
\* 128 * r, 2^log_n * 128 * r, p * 128 * r does not fit a usize; and for
\* the parameters that reach scrypt, n, r128, pr128 and nr128 are the exact
\* values, nothing wrapped.
C2_ParamsChecked ==
    /\ sz # NoSizes => ~sz.wrap
    \* the constructor has returned
    /\ (lastNew.called /\ op = "none"
        /\ MustReject(lastNew.log_n, lastNew.r, lastNew.p, usizeBytes)) =>
         ~lastNew.ok /\ params = NoParams
    \* line 96 has just been executed
    /\ pc = "expand" =>
         /\ ~MustReject(cparams.log_n, cparams.r, cparams.p, usizeBytes)
         /\ sz.n = Pow2(cparams.log_n)
         /\ sz.r128 = Mul(cparams.r, FromInt(BlockUnit))
         /\ sz.pr128 = Mul(cparams.p, sz.r128)
         /\ sz.nr128 = Mul(sz.n, sz.r128)

C2_Witness ==
    /\ lastNew.called /\ ~lastNew.ok
    /\ lastNew.r # Zero /\ lastNew.p # Zero
    /\ lastNew.log_n < 8 * usizeBytes

\* C3: when scrypt returns InvalidOutputLen no buffer was allocated, no
\* pbkdf2 and no ROMix ran, and the output is untouched; when it returns Ok
\* the whole output was written by the last pbkdf2; the output is never
\* written in part.
C3_NoPartialOutput ==
    /\ ret = "InvalidOutputLen" =>
         /\ allocd = {} /\ vUse = <<>>
         /\ kdfCalls = 0 /\ romixSeq = 0
         /\ output.written = Zero /\ output.seed = -1
    /\ ret = "Ok" =>
         /\ output.written = output.len
         /\ output.seed = KdfSeed(password, b)
    /\ output.written \in {Zero, output.len}
    /\ output.written # Zero => ret = "Ok"

C3_Witness ==
    /\ ret = "InvalidOutputLen" /\ pc = "returned"
    /\ Less(MaxOutputLen, output.len)

\* C4: scrypt_check answers InvalidFormat, without deriving a key, for a
\* string with characters before the first '$', another tag, a format that
\* is not "0" with 3 or "1" with 9 parameter bytes, parameters the
\* constructor rejects, a missing or non-base64 field, no final '$' or data
\* after it; it answers HashMismatch only for a string that has passed all
\* of this and whose hash differs from the derived output.
C4_FormatErrors ==
    op = "check" =>
      /\ ~FormatOk(checkInput, usizeBytes) =>
           /\ apiRet = "InvalidFormat" /\ pc = "idle"
           /\ kdfCalls = 0 /\ romixSeq = 0 /\ allocd = {} /\ sz = NoSizes
      /\ apiRet = "HashMismatch" =>
           /\ FormatOk(checkInput, usizeBytes)
           /\ ret = "Ok"
           /\ OutputBytes # hash

C4_Witness ==
    /\ op = "check" /\ apiRet = "InvalidFormat"
    /\ hashed # <<>> /\ checkInput = hashed \o <<"x">>

\* C5: the string scrypt_simple returned for a password is accepted by
\* scrypt_check with that password, in format 0 and in format 1.
C5_RoundTrip ==
    (/\ op = "check" /\ pc = "idle"
     /\ hashed # <<>> /\ checkInput = hashed
     /\ password = simplePw) => apiRet = "Ok"

C5_Witness ==
    /\ op = "check" /\ pc = "idle" /\ apiRet = "Ok"
    /\ hashed # <<>> /\ checkInput = hashed
    /\ password = simplePw
    /\ ~IsCompact(cparams)

\* C6: in whatever order the chunks of B are given to ROMix, all with the
\* same V and T, each chunk becomes what ROMix makes of it alone with a
\* fresh V, B ends as the forward loop leaves it, and so does the output.
C6_OrderIndependent ==
    /\ pc \in {"loop", "final"} =>
         \A k \in DOMAIN b : b[k] = IF k \in todo THEN b0[k] ELSE AloneB(k)
    /\ pc = "final" => b = ForwardB
    /\ ret = "Ok" => output.seed = KdfSeed(password, ForwardB)

\* The chunks were taken in another order than the forward one: the call
\* that filled V last was given the first chunk.
C6_Witness ==
    /\ pc = "final" /\ Len(b) = MaxSmallP
    /\ b0[1] # b0[Len(b)]
    /\ v[1].val = b0[1]

\* C7 as the specification has it: a V is used by one ROMix call and no
\* other.
C7_PrivateScratch ==
    \A id \in DOMAIN vUse : vUse[id] <= 1

\* C7: a derivation allocates one V before its loop; every ROMix call of
\* the loop, one per chunk of B, is passed that V; V is released when the
\* derivation returns.
C7_OneScratchPerDerivation ==
    /\ Len(vUse) <= 1
    /\ pc = "loop" => Len(vUse) = 1 /\ "v" \in allocd
    /\ pc = "final" => vUse = <<Len(b)>> /\ "v" \in allocd
    /\ ret = "Ok" => vUse = <<Len(b)>> /\ allocd = {}

C7_Witness ==
    /\ ret = "Ok" /\ Len(b) >= 2
    /\ vUse = <<Len(b)>> /\ allocd = {}

\* C8: the string scrypt_simple returns has a 16-byte salt and a 32-byte
\* hash, and scrypt_check answers Ok or HashMismatch only for a string with
\* a 16-byte salt and a 32-byte hash.
C8_SaltAndHashLengths ==
    /\ hashed # <<>> =>
         /\ Len(B64Decode(Split(hashed)[5]).bytes) = SaltLen
         /\ Len(B64Decode(Split(hashed)[6]).bytes) = DkLen
    /\ (op = "check" /\ pc = "idle" /\ apiRet \in {"Ok", "HashMismatch"}) =>
         Len(salt) = SaltLen /\ Len(hash) = DkLen

\* C9: scrypt_simple writes format "0" with the 3 bytes log_n, r, p exactly
\* when r < 256 and p < 256, else format "1" with log_n and r and p as 4
\* little-endian bytes each; the parameters scrypt_check decodes from them
\* are the ones encoded.
C9_ParamEncoding ==
    \* scrypt_simple has returned the string
    (op = "simple" /\ hashed # <<>>) =>
      LET f     == Split(hashed)
          pv    == B64Decode(f[4]).bytes
          small == /\ Less(params.r, FromInt(CompactLimit))
                   /\ Less(params.p, FromInt(CompactLimit))
      IN  /\ small =>
                /\ f[3] = <<"0">>
                /\ pv = <<params.log_n, ToInt(params.r), ToInt(params.p)>>
          /\ ~small =>
                /\ f[3] = <<"1">>
                /\ pv = <<params.log_n>>
                        \o [i \in 1..4 |-> params.r[i]]
                        \o [i \in 1..4 |-> params.p[i]]
          /\ DecodeParams(f[3], pv, usizeBytes)
               = [ok |-> TRUE, params |-> params]

C9_Witness ==
    op = "simple" /\ hashed # <<>> /\ Split(hashed)[3] = <<"1">>

\* C10: every block a ROMix call reads from V in its mix phase has an index
\* in 0 .. n-1 and was written by the fill phase of that call, never the
\* zeroes of the allocation and never what an earlier call left; when the
\* loop is done all n blocks of V are from the fill phase of the last call.
C10_MixReadsOwnFill ==
    /\ \A rd \in reads :
         rd.j \in 0..(ToInt(sz.n) - 1) /\ rd.from = "own"
    /\ pc = "final" =>
         /\ Len(v) = ToInt(sz.n)
         /\ \A i \in DOMAIN v : v[i].by = romixSeq

C10_Witness ==
    /\ pc = "final" /\ romixSeq >= 2
    /\ Cardinality(reads) >= 2

====
